---- MODULE Spec2Model ----
(***************************************************************************)
(* Model of reqwest_mock's replay client (src/src/replay/mod.rs,           *)
(* src/src/replay/data.rs, src/src/replay/storage.rs).                     *)
(*                                                                         *)
(* One ReplayClient session over one cassette file.  The state is the      *)
(* client's ClientData, the InnerClient (mode, file), the request builder  *)
(* being assembled, the content of the cassette file on disk, and what the *)
(* caller and the transport have observed.                                 *)
(***************************************************************************)
EXTENDS Naturals, Sequences, FiniteSets, TLC

(***************************************************************************)
(* Bounds of the model.                                                    *)
(***************************************************************************)
\* number of send calls explored in one behaviour
MaxSends == 2
\* number of sessions (constructions of a client on the same file)
MaxSessions == 2

(***************************************************************************)
(* Option<T>                                                               *)
(***************************************************************************)
None == [some |-> FALSE]
Some(x) == [some |-> TRUE, v |-> x]

(***************************************************************************)
(* Value domains the inputs are drawn from.                                *)
(***************************************************************************)
ClientModes == {"Record", "Replay"}
HandleChangedRequest == {"Ignore", "Record", "Panic"}

Methods == {"GET", "POST"}
\* strings a caller passes as url; the last one does not parse
UrlInputs == {"http://a", "not a url"}

\* RedirectPolicy::Limit(n) / RedirectPolicy::None
Limit(n) == [tag |-> "Limit", n |-> n]
RedirectNone == [tag |-> "None"]
RedirectPolicy_default == Limit(10)
RedirectPolicies == {RedirectPolicy_default, RedirectNone}

Durations == {5}
Bodies == {<<>>, <<1>>}
Credentials == {[username |-> "u", password |-> None],
                [username |-> "u", password |-> Some("p")]}

HeaderNames == {"accept", "content-type"}
HeaderValues == {"a"}
\* reqwest::header::Headers: name -> the raw lines of that header, <<>> = not set
Headers_new == [n \in HeaderNames |-> <<>>]
\* arguments given to RequestBuilder::headers; the second has a
\* two-line (multi-valued) header
HeadersInputs == {[Headers_new EXCEPT !["accept"] = <<"b">>],
                  [Headers_new EXCEPT !["accept"] = <<"a", "b">>]}
ContentType_form_url_encoded == "application/x-www-form-urlencoded"
ContentType_json == "application/json"

\* values given to form() and json(): a sequence of (key, value) byte pairs
Serializables == {<<<<1, 2>>>>}

\* IntoUrl::into_url: Url::parse of the string; Ok carries the parsed Url in
\* its canonical form (an empty path becomes "/"), Err is a parse error
into_url(s) ==
    CASE s = "http://a"  -> [ok |-> TRUE, v |-> "http://a/"]
      [] s = "http://a/" -> [ok |-> TRUE, v |-> "http://a/"]
      [] s = "http://b/" -> [ok |-> TRUE, v |-> "http://b/"]
      [] OTHER           -> [ok |-> FALSE]
Urls == {into_url(s).v : s \in {t \in UrlInputs : into_url(t).ok}}

\* serde_urlencoded::to_string: k=v pairs joined by '&' (61 is '=', 38 is '&')
RECURSIVE UrlEncoded(_)
UrlEncoded(f) ==
    IF f = <<>> THEN <<>>
    ELSE <<f[1][1], 61, f[1][2]>> \o
         (IF Len(f) > 1 THEN <<38>> \o UrlEncoded(Tail(f)) ELSE <<>>)

\* serde_json::to_vec of the same values: a JSON array of pairs
\* (91 '[', 93 ']', 44 ',')
RECURSIVE JsonItems(_)
JsonItems(f) ==
    IF f = <<>> THEN <<>>
    ELSE <<91, f[1][1], 44, f[1][2], 93>> \o
         (IF Len(f) > 1 THEN <<44>> \o JsonItems(Tail(f)) ELSE <<>>)
JsonEncoded(f) == <<91>> \o JsonItems(f) \o <<93>>

(***************************************************************************)
(* data.rs                                                                 *)
(***************************************************************************)
ClientData_default ==
    [gzip |-> TRUE, redirect |-> RedirectPolicy_default, timeout |-> None]

RequestData_default ==
    [target     |-> None,
     gzip       |-> TRUE,
     redirect   |-> RedirectPolicy_default,
     timeout    |-> None,
     basic_auth |-> None,
     headers    |-> Headers_new,
     body       |-> None]

\* new_for_client that forgets to copy the client's values
new_for_client_default(cd) == RequestData_default

new_for_client(cd) ==
    [RequestData_default EXCEPT !.gzip = cd.gzip,
                                !.redirect = cd.redirect,
                                !.timeout = cd.timeout]

\* a set that adds the value to the lines the header already has
Headers_set_append(h, n, v) == [h EXCEPT ![n] = Append(@, v)]

\* Headers::set replaces all lines of the header by the new one
Headers_set(h, n, v) == [h EXCEPT ![n] = <<v>>]
\* Headers::extend inserts every header of the argument, replacing a header
\* of the same name
Headers_extend(h, hs) ==
    [n \in HeaderNames |-> IF hs[n] # <<>> THEN hs[n] ELSE h[n]]

ResponseData_new(url, status, hdrs, body_bytes) ==
    [url |-> url, status |-> status, headers |-> hdrs, body |-> body_bytes]

\* RedirectPolicy::to_reqwest_policy (lib.rs)
to_reqwest_policy(p) ==
    IF p.tag = "Limit" THEN [tag |-> "limited", n |-> p.n]
                       ELSE [tag |-> "none"]

(***************************************************************************)
(* The transport (reqwest) and what it can answer.                         *)
(***************************************************************************)
ClientNewErrors == {"tls"}
TransportErrors == {"timeout", "connect"}
Responses ==
    {[url |-> "http://a/", status |-> 200,
      headers |-> [Headers_new EXCEPT !["content-type"] = <<ContentType_json>>,
                                      !["accept"] = <<"a", "b">>],
      body |-> <<1, 2>>],
     [url |-> "http://b/", status |-> 404,
      headers |-> Headers_new,
      body |-> <<>>]}
ExecOutcomes ==
    {[ok |-> TRUE, v |-> r] : r \in Responses} \cup
    {[ok |-> FALSE, e |-> e] : e \in TransportErrors}
\* Read::read_to_end on the response: all of the body, or an error after
\* n bytes have been read
ReadOutcomes(body_bytes) ==
    {[ok |-> TRUE, n |-> Len(body_bytes)]} \cup
    {[ok |-> FALSE, n |-> k] : k \in {0} \cup (0 .. Len(body_bytes) - 1)}
\* outcome of ReplayFile::write: File::create failed, to_writer failed, or Ok
WriteOutcomes == {"ok", "create_failed", "write_failed"}

(***************************************************************************)
(* Serialization (data.rs, storage.rs)                                     *)
(***************************************************************************)
\* HeaderView::value_string: the lines of the header joined by ", "
RECURSIVE value_string(_)
value_string(lines) ==
    IF Len(lines) = 1 THEN lines[1]
    ELSE lines[1] \o ", " \o value_string(Tail(lines))

\* impl Serialize for Headers: a HashMap<String, String> name -> value_string
Headers_serialize(h) ==
    [n \in {m \in HeaderNames : h[m] # <<>>} |-> value_string(h[n])]

\* wrap_as_serde_str_type Serialize: value.as_ref(); a Url and a Method are
\* kept in their canonical string form
as_ref(x) == x
\* StatusCode Serialize: to_u16
to_u16(status) == status % 65536

RequestTarget_serialize(t) ==
    IF t.some THEN Some([url |-> as_ref(t.v.url), method |-> as_ref(t.v.method)])
              ELSE None

RequestData_serialize(r) ==
    [target     |-> RequestTarget_serialize(r.target),
     gzip       |-> r.gzip,
     redirect   |-> r.redirect,
     timeout    |-> r.timeout,
     basic_auth |-> r.basic_auth,
     headers    |-> Headers_serialize(r.headers),
     body       |-> r.body]

ResponseData_serialize(r) ==
    [url     |-> as_ref(r.url),
     status  |-> to_u16(r.status),
     headers |-> Headers_serialize(r.headers),
     body    |-> r.body]

\* #[derive(Serialize)] struct ReplayData
ReplayData_serialize(d) ==
    [request  |-> RequestData_serialize(d.request),
     response |-> ResponseData_serialize(d.response)]

\* The cassette file on disk: missing, a complete JSON document, or the
\* remains of an interrupted write (created/truncated, document incomplete)
FileMissing == [state |-> "missing"]
FileComplete(json) == [state |-> "complete", json |-> json]
FilePartial == [state |-> "partial"]

\* ReplayFile::write: File::create truncates the file at path, then
\* serde_json::to_writer writes the one ReplayData
write(old, replay_data, outcome) ==
    CASE outcome = "create_failed" -> old
      [] outcome = "write_failed"  -> FilePartial
      [] OTHER                     -> FileComplete(ReplayData_serialize(replay_data))

(***************************************************************************)
(* Deserialization (data.rs, storage.rs)                                   *)
(***************************************************************************)
ParsedOk(x) == [ok |-> TRUE, v |-> x]
ParseError == [ok |-> FALSE]

\* a Url deserializer that takes a string that does not parse as it is
Url_deserialize_lenient(str) == ParsedOk(str)

\* wrap_as_serde_str_type!(Url) Deserialize: s.parse().map_err(custom)
Url_deserialize(str) ==
    IF into_url(str).ok THEN ParsedOk(into_url(str).v) ELSE ParseError

\* reqwest::Method::from_str: only the empty string is not a method
Method_from_str(str) == IF str = "" THEN ParseError ELSE ParsedOk(str)

\* wrap_as_serde_str_type!(Method) Deserialize
Method_deserialize(str) == Method_from_str(str)

\* impl Deserialize for StatusCode: u16::deserialize, then from_u16
StatusCode_deserialize(n) ==
    IF n \in 0 .. 65535 THEN ParsedOk(n) ELSE ParseError

\* impl Deserialize for Headers: every (name, value) of the map is
\* append_raw'ed as one line
Headers_deserialize(map) ==
    [n \in HeaderNames |-> IF n \in DOMAIN map THEN <<map[n]>> ELSE <<>>]

\* #[derive(Deserialize)] RequestTarget, inside Option
RequestTarget_deserialize(t) ==
    IF ~t.some THEN ParsedOk(None)
    ELSE LET url == Url_deserialize(t.v.url)
             method == Method_deserialize(t.v.method)
         IN IF url.ok /\ method.ok
            THEN ParsedOk(Some([url |-> url.v, method |-> method.v]))
            ELSE ParseError

\* #[derive(Deserialize)] RequestData
RequestData_deserialize(j) ==
    LET target == RequestTarget_deserialize(j.target)
    IN IF ~target.ok THEN ParseError
       ELSE ParsedOk([target     |-> target.v,
                      gzip       |-> j.gzip,
                      redirect   |-> j.redirect,
                      timeout    |-> j.timeout,
                      basic_auth |-> j.basic_auth,
                      headers    |-> Headers_deserialize(j.headers),
                      body       |-> j.body])

\* #[derive(Deserialize)] ResponseData
ResponseData_deserialize(j) ==
    LET url == Url_deserialize(j.url)
        status == StatusCode_deserialize(j.status)
    IN IF ~url.ok \/ ~status.ok THEN ParseError
       ELSE ParsedOk([url     |-> url.v,
                      status  |-> status.v,
                      headers |-> Headers_deserialize(j.headers),
                      body    |-> j.body])

\* #[derive(Deserialize)] ReplayData
ReplayData_deserialize(j) ==
    LET request == RequestData_deserialize(j.request)
        response == ResponseData_deserialize(j.response)
    IN IF ~request.ok \/ ~response.ok THEN ParseError
       ELSE ParsedOk([request |-> request.v, response |-> response.v])

\* what ReplayFile::read and ReplayFile::write give their caller
ReadOk(d) == [kind |-> "read_ok", data |-> d]
ReadErr(e) == [kind |-> "read_err", error |-> e]
WriteOk == [kind |-> "write_ok"]
WriteErr(e) == [kind |-> "write_err", error |-> e]

\* ReplayFile::read: File::open(&self.path)?, then serde_json::from_reader(file)?
read_result(f) ==
    CASE f.state = "missing" -> ReadErr("io")
      [] f.state = "partial" -> ReadErr("json")
      [] OTHER -> LET d == ReplayData_deserialize(f.json)
                  IN IF d.ok THEN ReadOk(d.v) ELSE ReadErr("json")

(***************************************************************************)
(* State                                                                   *)
(***************************************************************************)
VARIABLES
    mode,       \* InnerClient.mode
    policy,     \* the HandleChangedRequest the session was configured with
    data,       \* ReplayClient.data : ClientData
    rb,         \* the ReplayRequestBuilder in the caller's hands, or None
    file,       \* content of the file at InnerClient.file.path
    pc,         \* "running", or "panicked" once a panic unwinds the caller
    result,     \* what the last send gave its caller
    sent,       \* the RequestData the last send_request was called with
    transport,  \* what the transport was asked to do in this session, and
                \* how each operation ended
    recorded,   \* the ReplayData values handed to file.write in this
                \* session, and how each write ended
    previous,   \* the same, of the session before this one
    session,    \* number of the current session on this file
    calls,      \* number of send_request calls in this session
    sends       \* number of send_request calls in all sessions

vars == <<mode, policy, data, rb, file, pc, result, sent, transport,
          recorded, previous, session, calls, sends>>

NoResult == [kind |-> "none"]
Ok(response) == [kind |-> "ok", response |-> response]
Err(e) == [kind |-> "err", error |-> e]
Panicked == [kind |-> "panic"]

\* RequestData values send_request is applied to directly
RequestDatas ==
    LET get_a == Some([url |-> "http://a/", method |-> "GET"])
        base  == [RequestData_default EXCEPT
                     !.target = get_a,
                     !.headers = Headers_set(Headers_new, "accept", "a")]
    IN {RequestData_default,
        base,
        [base EXCEPT !.timeout = Some(5)],
        [base EXCEPT !.body = Some(<<1>>),
                     !.basic_auth = Some([username |-> "u", password |-> None])]}

\* a cassette file left by an earlier run
InitialFiles ==
    {FileMissing} \cup
    {FileComplete(ReplayData_serialize([request |-> r, response |-> p])) :
        r \in {q \in RequestDatas : q.target.some /\ ~q.timeout.some
                                    /\ ~q.body.some},
        p \in {q \in Responses : q.status = 200}}

Init ==
    /\ mode \in ClientModes
    /\ policy \in HandleChangedRequest
    /\ data = ClientData_default
    /\ rb = None
    /\ file \in InitialFiles
    /\ pc = "running"
    /\ result = NoResult
    /\ sent = None
    /\ transport = <<>>
    /\ recorded = <<>>
    /\ previous = <<>>
    /\ session = 1
    /\ calls = 0
    /\ sends = 0

(***************************************************************************)
(* impl Client for ReplayClient                                            *)
(***************************************************************************)
gzip(enable) ==
    /\ pc = "running"
    /\ data' = [data EXCEPT !.gzip = enable]
    /\ UNCHANGED <<mode, policy, rb, file, pc, result, sent, transport,
                   recorded, previous, session, calls, sends>>

redirect(p) ==
    /\ pc = "running"
    /\ data' = [data EXCEPT !.redirect = p]
    /\ UNCHANGED <<mode, policy, rb, file, pc, result, sent, transport,
                   recorded, previous, session, calls, sends>>

timeout(t) ==
    /\ pc = "running"
    /\ data' = [data EXCEPT !.timeout = Some(t)]
    /\ UNCHANGED <<mode, policy, rb, file, pc, result, sent, transport,
                   recorded, previous, session, calls, sends>>

request(method, url) ==
    /\ pc = "running"
    /\ rb = None
    /\ IF into_url(url).ok
       THEN /\ rb' = Some([data   |-> new_for_client(data),
                           method |-> method,
                           url    |-> into_url(url).v])
            /\ pc' = pc
            /\ result' = NoResult
       ELSE \* url.into_url().unwrap() panics
            /\ rb' = rb
            /\ pc' = "panicked"
            /\ result' = Panicked
    \* result and sent describe the call in progress: a new call starts
    /\ sent' = None
    /\ UNCHANGED <<mode, policy, data, file, transport, recorded,
                   previous, session, calls, sends>>

(***************************************************************************)
(* impl RequestBuilder for ReplayRequestBuilder                            *)
(***************************************************************************)
\* the builder with its data replaced (the methods take and return self)
with_data(d) == Some([rb.v EXCEPT !.data = d])

builder_frame ==
    UNCHANGED <<mode, policy, data, file, pc, result, sent, transport,
                recorded, previous, session, calls, sends>>

header_data(d, n, v) == [d EXCEPT !.headers = Headers_set(d.headers, n, v)]
body_data(d, b) == [d EXCEPT !.body = Some(b)]

header(n, v) ==
    /\ pc = "running" /\ rb.some
    /\ rb' = with_data(header_data(rb.v.data, n, v))
    /\ builder_frame

headers(hs) ==
    /\ pc = "running" /\ rb.some
    /\ rb' = with_data([rb.v.data EXCEPT
                           !.headers = Headers_extend(rb.v.data.headers, hs)])
    /\ builder_frame

basic_auth(username, password) ==
    /\ pc = "running" /\ rb.some
    /\ rb' = with_data([rb.v.data EXCEPT
                           !.basic_auth = Some([username |-> username,
                                                password |-> password])])
    /\ builder_frame

body(b) ==
    /\ pc = "running" /\ rb.some
    /\ rb' = with_data(body_data(rb.v.data, b))
    /\ builder_frame

form(f) ==
    /\ pc = "running" /\ rb.some
    /\ rb' = with_data(body_data(header_data(rb.v.data, "content-type",
                                             ContentType_form_url_encoded),
                                 UrlEncoded(f)))
    /\ builder_frame

json(j) ==
    /\ pc = "running" /\ rb.some
    /\ rb' = with_data(body_data(header_data(rb.v.data, "content-type",
                                             ContentType_json),
                                 JsonEncoded(j)))
    /\ builder_frame

(***************************************************************************)
(* InnerClient::send_request                                               *)
(***************************************************************************)
\* a call that leaves the timeout out: the transport's own default applies
transport_call_default_timeout(request_data) ==
    [gzip       |-> request_data.gzip,
     redirect   |-> to_reqwest_policy(request_data.redirect),
     timeout    |-> None,
     method     |-> request_data.target.v.method,
     url        |-> request_data.target.v.url,
     headers    |-> request_data.headers,
     basic_auth |-> request_data.basic_auth,
     body       |-> request_data.body]

\* the call the transport sees: client.gzip/redirect/timeout, then
\* client.request(method, url).headers(..)[.basic_auth(..)][.body(..)]
transport_call(request_data) ==
    [gzip       |-> request_data.gzip,
     redirect   |-> to_reqwest_policy(request_data.redirect),
     timeout    |-> request_data.timeout,
     method     |-> request_data.target.v.method,
     url        |-> request_data.target.v.url,
     headers    |-> request_data.headers,
     basic_auth |-> request_data.basic_auth,
     body       |-> request_data.body]

\* reqwest::Client::new(): the transport builds a client
client_new(log, outcome) == Append(log, [op |-> "new", outcome |-> outcome])

\* req.send() that tries a second time when the first attempt failed
req_send_retry(log, call, outcome) ==
    IF outcome.ok
    THEN Append(log, [op |-> "send", call |-> call, outcome |-> outcome])
    ELSE Append(Append(log, [op |-> "send", call |-> call, outcome |-> outcome]),
                [op |-> "send", call |-> call, outcome |-> outcome])

\* req.send(): the transport executes the request once
req_send(log, call, outcome) ==
    Append(log, [op |-> "send", call |-> call, outcome |-> outcome])

\* the requests the transport executed
Executions(log) == SelectSeq(log, LAMBDA ev : ev.op = "send")

\* an early return of Err(e) by the ? operator
return_err(e) ==
    /\ result' = Err(e)
    /\ UNCHANGED <<file, pc, recorded>>

\* ClientMode::Record, from the response on
record_response(request_data, response, read, write_outcome) ==
    LET response_body == SubSeq(response.body, 1, read.n)
        response_data == ResponseData_new(response.url, response.status,
                                          response.headers, response_body)
        replay_data   == [request |-> request_data, response |-> response_data]
    IN /\ file' = write(file, replay_data, write_outcome)
       /\ recorded' = Append(recorded, [data    |-> replay_data,
                                        written |-> write_outcome])
       \* the Response handed back has had its body read by read_to_end
       /\ result' = Ok([url     |-> response.url,
                        status  |-> response.status,
                        headers |-> response.headers,
                        body    |-> SubSeq(response.body, read.n + 1,
                                           Len(response.body))])
       /\ pc' = pc

\* ClientMode::Record
send_request_record(request_data) ==
    \E new \in {[ok |-> TRUE]} \cup {[ok |-> FALSE, e |-> e] : e \in ClientNewErrors} :
        IF ~new.ok
        THEN \* reqwest::Client::new()?
             /\ return_err(new.e)
             /\ transport' = client_new(transport, new)
        ELSE IF ~request_data.target.some
        THEN \* request_data.target.clone().unwrap() panics
             /\ pc' = "panicked"
             /\ result' = Panicked
             /\ transport' = client_new(transport, new)
             /\ UNCHANGED <<file, recorded>>
        ELSE \E exec \in ExecOutcomes :
             /\ transport' = req_send(client_new(transport, new),
                                      transport_call(request_data), exec)
             /\ IF ~exec.ok
                THEN \* req.send()?
                     return_err(exec.e)
                ELSE \E read \in ReadOutcomes(exec.v.body),
                        write_outcome \in WriteOutcomes :
                        record_response(request_data, exec.v, read, write_outcome)

\* a Replay branch that returns an error value instead of panicking
send_request_replay_err(request_data) ==
    /\ result' = Err("ReplayMismatch")
    /\ UNCHANGED <<file, pc, recorded, transport>>

\* ClientMode::Replay: unimplemented!()
send_request_replay(request_data) ==
    /\ pc' = "panicked"
    /\ result' = Panicked
    /\ UNCHANGED <<file, recorded, transport>>

send_request(request_data) ==
    /\ sends < MaxSends
    /\ sends' = sends + 1
    /\ calls' = calls + 1
    /\ sent' = Some(request_data)
    /\ IF mode = "Record"
       THEN send_request_record(request_data)
       ELSE send_request_replay(request_data)
    /\ UNCHANGED <<mode, policy, data, previous, session>>

\* ReplayRequestBuilder::send
send ==
    /\ pc = "running" /\ rb.some
    /\ rb' = None
    /\ send_request(rb.v.data)

\* send_request applied to a RequestData of its parameter type
send_request_any ==
    /\ pc = "running"
    /\ \E request_data \in RequestDatas : send_request(request_data)
    /\ UNCHANGED rb

\* the program is run again on the same cassette file
new_session(m, p) ==
    /\ session < MaxSessions
    /\ session' = session + 1
    /\ mode' = m
    /\ policy' = p
    /\ data' = ClientData_default
    /\ rb' = None
    /\ pc' = "running"
    /\ result' = NoResult
    /\ sent' = None
    /\ transport' = <<>>
    /\ previous' = recorded
    /\ recorded' = <<>>
    /\ calls' = 0
    /\ UNCHANGED <<file, sends>>

(***************************************************************************)
(* ReplayFile                                                              *)
(***************************************************************************)
\* ReplayData values given to ReplayFile::write
ReplayDatas ==
    {[request |-> r,
      response |-> ResponseData_new(p.url, p.status, p.headers, p.body)] :
        r \in {q \in RequestDatas : ~q.timeout.some}, p \in Responses}

\* contents the file at the path can have when a ReplayFile is made for it:
\* no file, an incomplete document, a document written by write, and
\* documents whose url, method or status does not parse
StoredFiles ==
    LET good == {ReplayData_serialize(d) : d \in {e \in ReplayDatas :
                     e.request.target.some /\ ~e.request.body.some
                     /\ e.response.status = 200}}
    IN {FileMissing, FilePartial} \cup
       {FileComplete(j) : j \in good} \cup
       {FileComplete([j EXCEPT !.request.target.v.url = "not a url"]) : j \in good} \cup
       {FileComplete([j EXCEPT !.request.target.v.method = ""]) : j \in good} \cup
       {FileComplete([j EXCEPT !.response.url = "not a url"]) : j \in good} \cup
       {FileComplete([j EXCEPT !.response.status = 70000]) : j \in good}

InitReplayFile ==
    /\ mode = "Record"
    /\ policy = "Ignore"
    /\ data = ClientData_default
    /\ rb = None
    /\ file \in StoredFiles
    /\ pc = "running"
    /\ result = NoResult
    /\ sent = None
    /\ transport = <<>>
    /\ recorded = <<>>
    /\ previous = <<>>
    /\ session = 1
    /\ calls = 0
    /\ sends = 0

ReplayFile_frame ==
    UNCHANGED <<mode, policy, data, rb, sent, transport, previous, session,
                calls, sends>>

\* ReplayFile::read
ReplayFile_read ==
    /\ pc = "running"
    /\ result' = read_result(file)
    /\ UNCHANGED <<file, pc, recorded>>
    /\ ReplayFile_frame

\* ReplayFile::write
ReplayFile_write(replay_data, outcome) ==
    /\ pc = "running"
    /\ Len(recorded) < MaxSends
    /\ file' = write(file, replay_data, outcome)
    /\ recorded' = Append(recorded, [data |-> replay_data, written |-> outcome])
    /\ result' = IF outcome = "ok" THEN WriteOk ELSE WriteErr(outcome)
    /\ pc' = pc
    /\ ReplayFile_frame

\* points of ReplayFile::write at which the process can be killed: before
\* File::create, after it has truncated the file and before to_writer has
\* written all of the document, and after to_writer
KillPoints == {"before_create", "in_to_writer", "after_to_writer"}

\* the process is killed inside ReplayFile::write
ReplayFile_write_killed(replay_data, at) ==
    /\ pc = "running"
    /\ Len(recorded) < MaxSends
    /\ file' = CASE at = "before_create" -> file
                [] at = "in_to_writer" -> FilePartial
                [] OTHER -> write(file, replay_data, "ok")
    /\ recorded' = Append(recorded, [data |-> replay_data, written |-> "killed"])
    /\ result' = NoResult
    /\ pc' = "killed"
    /\ ReplayFile_frame

(***************************************************************************)
(* Specifications                                                          *)
(***************************************************************************)
\* the client as its callers drive it
Next ==
    \/ \E e \in BOOLEAN : gzip(e)
    \/ \E p \in RedirectPolicies : redirect(p)
    \/ \E t \in Durations : timeout(t)
    \/ \E m \in Methods, u \in UrlInputs : request(m, u)
    \/ \E n \in HeaderNames, v \in HeaderValues : header(n, v)
    \/ \E hs \in HeadersInputs : headers(hs)
    \/ \E c \in Credentials : basic_auth(c.username, c.password)
    \/ \E b \in Bodies : body(b)
    \/ \E f \in Serializables : form(f)
    \/ \E j \in Serializables : json(j)
    \/ send

Spec == Init /\ [][Next]_vars

\* send_request over its whole parameter type, across runs of the program
NextSendRequest ==
    \/ send_request_any
    \/ \E m \in ClientModes, p \in HandleChangedRequest : new_session(m, p)

SpecSendRequest == Init /\ [][NextSendRequest]_vars

\* a ReplayFile read and written by its caller
NextReplayFile ==
    \/ ReplayFile_read
    \/ \E d \in ReplayDatas, o \in WriteOutcomes : ReplayFile_write(d, o)
    \/ \E d \in ReplayDatas, at \in KillPoints : ReplayFile_write_killed(d, at)

SpecReplayFile == InitReplayFile /\ [][NextReplayFile]_vars

(***************************************************************************)
(* Properties                                                              *)
(***************************************************************************)
Last(q) == q[Len(q)]

\* a step that is one call of send_request
SendStep == sends' = sends + 1

\* C1: in Record mode every send executes the request through the transport
\* (unless the transport already failed to build its client), performs no
\* matching, and on success hands exactly one ReplayData pairing the sent
\* RequestData with the captured response to the cassette store.
C1_RecordExecutesAndHandsOne ==
    [][(SendStep /\ mode = "Record") =>
          \/ /\ Len(transport') = Len(transport) + 1
             /\ ~Last(transport').outcome.ok
             /\ recorded' = recorded
          \/ /\ Len(transport') = Len(transport) + 2
             /\ Last(transport').op = "send"
             /\ Last(transport').call = transport_call(sent'.v)
             /\ IF Last(transport').outcome.ok
                THEN /\ Len(recorded') = Len(recorded) + 1
                     /\ Last(recorded').data.request = sent'.v
                     /\ Last(recorded').data.response.status =
                            Last(transport').outcome.v.status
                     /\ result'.kind = "ok"
                ELSE recorded' = recorded]_vars

\* the interactions a cassette file holds, in order
Cassette(f) == IF f.state = "complete" THEN <<f.json>> ELSE <<>>

\* C2: after N successful Record-mode sends in one session the cassette
\* holds those N interactions in call order (recording appends, an earlier
\* interaction is never overwritten).
C2_CassetteHoldsAllRecorded ==
    LET mine == recorded
        n    == Len(mine)
        held == Cassette(file)
    IN (mode = "Record" /\ n >= 1 /\ \A i \in 1 .. n : mine[i].written = "ok")
       => /\ Len(held) >= n
          /\ \A i \in 1 .. n :
                held[Len(held) - n + i] = ReplayData_serialize(mine[i].data)

\* C3: a Record-mode send that fails in the transport returns that error
\* unchanged, the transport is not asked again, and the cassette is as before.
C3_TransportFailureNotRecorded ==
    [][(SendStep /\ mode = "Record" /\ ~Last(transport').outcome.ok) =>
          /\ result' = Err(Last(transport').outcome.e)
          /\ file' = file
          /\ recorded' = recorded
          /\ pc' = pc
          /\ Len(Executions(transport')) <= Len(Executions(transport)) + 1
          /\ \A i \in 1 .. Len(transport') - 1 :
                i > Len(transport) => transport'[i].outcome.ok]_vars

\* C3 happens: a Record-mode send has come back with the transport's timeout
C3_Witness ==
    /\ mode = "Record" /\ sent.some
    /\ transport # <<>> /\ Last(transport).op = "send"
    /\ ~Last(transport).outcome.ok
    /\ result = Err("timeout")

\* C4: the RequestData send_request receives has its target present.
C4_TargetPresentAtSend == sent.some => sent.v.target.some

\* C5: a request built by Client::request carries the gzip, redirect and
\* timeout the client had when request() was called, and a later gzip(),
\* redirect() or timeout() on the client leaves the built request unchanged.
C5_ConfigCopiedAtRequest ==
    [][/\ (~rb.some /\ rb'.some) =>
             /\ rb'.v.data.gzip = data.gzip
             /\ rb'.v.data.redirect = data.redirect
             /\ rb'.v.data.timeout = data.timeout
       /\ (data' # data) => rb' = rb]_vars

\* C5 happens: the client was reconfigured after the request was built
C5_Witness ==
    /\ rb.some
    /\ rb.v.data.gzip # data.gzip
    /\ rb.v.data.redirect # data.redirect
    /\ rb.v.data.timeout # data.timeout

\* the recorded interaction the next replay is due to answer with
AtReplayPosition == Cassette(file)[calls + 1]
HasReplayPosition == Len(Cassette(file)) >= calls + 1

\* the request is the stored one, field for field
SameAsStored(request_data, stored) ==
    RequestData_serialize(request_data) = stored

\* the request is not request-equivalent to the stored one: method, url,
\* headers, body or basic-auth differ
Differs(request_data, stored) ==
    LET mine == RequestData_serialize(request_data)
    IN \/ mine.target # stored.target
       \/ mine.headers # stored.headers
       \/ mine.body # stored.body
       \/ mine.basic_auth # stored.basic_auth

\* the caller got the stored response, whole
ReturnsStored(res, stored) ==
    /\ res.kind = "ok"
    /\ as_ref(res.response.url) = stored.url
    /\ to_u16(res.response.status) = stored.status
    /\ Headers_serialize(res.response.headers) = stored.headers
    /\ res.response.body = stored.body

\* C6: in Replay mode send calls the transport only when the policy promotes
\* the call to a live one; a request equal to the recorded one gets the
\* stored response with no transport call.
C6_ReplayAnswersFromCassette ==
    [][(SendStep /\ mode = "Replay") =>
          /\ (policy # "Record") => transport' = transport
          /\ (HasReplayPosition
                /\ SameAsStored(sent'.v, AtReplayPosition.request))
             => /\ ReturnsStored(result', AtReplayPosition.response)
                /\ transport' = transport]_vars

\* C7: a replay answers with the first not yet consumed interaction, in
\* recorded order, whose request equals the outgoing one, and an interaction
\* is answered with at most once per session.
C7_FirstUnconsumedInOrder ==
    [][(SendStep /\ mode = "Replay") =>
          LET held    == Cassette(file)
              matches == {i \in 1 .. Len(held) :
                             i > calls /\ SameAsStored(sent'.v, held[i].request)}
          IN IF matches # {}
             THEN LET first == CHOOSE i \in matches : \A j \in matches : i <= j
                  IN /\ ReturnsStored(result', held[first].response)
                     /\ pc' = "running"
             ELSE ~(\E i \in 1 .. Len(held) :
                       i <= calls /\ ReturnsStored(result', held[i].response))]_vars

\* C8: after a Record session of N requests, a Replay session under Ignore
\* or Panic that sends the same requests in the same order gets, at each
\* position, the response captured at record time.
C8_RecordThenReplay ==
    (/\ session >= 2 /\ mode = "Replay" /\ policy \in {"Ignore", "Panic"}
     /\ calls >= 1 /\ sent.some
     /\ Len(previous) >= calls
     /\ \A i \in 1 .. Len(previous) :
           previous[i].written = "ok"
     /\ sent.v = previous[calls].data.request)
    => LET captured == previous[calls].data.response
       IN /\ result.kind = "ok"
          /\ result.response.url = captured.url
          /\ result.response.status = captured.status
          /\ result.response.headers = captured.headers
          /\ result.response.body = captured.body

\* a Replay-mode send under the Panic policy of a request that differs from
\* the recorded one at the replay position
PanicPolicyMismatchStep ==
    /\ SendStep /\ mode = "Replay" /\ policy = "Panic"
    /\ HasReplayPosition
    /\ Differs(sent'.v, AtReplayPosition.request)

C10_IgnoreReturnsStored ==
    [][(/\ SendStep /\ mode = "Replay" /\ policy = "Ignore"
        /\ HasReplayPosition
        /\ Differs(sent'.v, AtReplayPosition.request)) =>
          /\ ReturnsStored(result', AtReplayPosition.response)
          /\ transport' = transport]_vars

\* a Replay-mode send for which the cassette holds no interaction that has
\* not been answered with
ExhaustedStep == SendStep /\ mode = "Replay" /\ ~HasReplayPosition

\* the send made exactly one transport execution and appended its
\* interaction to the cassette behind the ones already held
PromotedToLive ==
    /\ Len(Executions(transport')) = Len(Executions(transport)) + 1
    /\ Last(transport').outcome.ok =>
          /\ Len(Cassette(file')) = Len(Cassette(file)) + 1
          /\ SubSeq(Cassette(file'), 1, Len(Cassette(file))) = Cassette(file)
          /\ Last(Cassette(file')).request = RequestData_serialize(sent'.v)
    /\ ~Last(transport').outcome.ok =>
          /\ file' = file
          /\ calls' = calls

\* C11: in Replay mode under the Record policy a request that differs from
\* the recorded one makes exactly one live transport call whose interaction
\* is appended to the cassette, every earlier interaction kept; a failed
\* live call appends nothing and consumes nothing.
C11_RecordPolicyPromotesMismatch ==
    [][(/\ SendStep /\ mode = "Replay" /\ policy = "Record"
        /\ HasReplayPosition
        /\ Differs(sent'.v, AtReplayPosition.request)) => PromotedToLive]_vars

\* C12: a Replay-mode send with no unconsumed interaction left makes one
\* live call and appends one interaction under Record, and under Ignore or
\* Panic returns a ReplayExhausted error without a transport call.
C12_ExhaustedCassette ==
    [][ExhaustedStep =>
          IF policy = "Record"
          THEN /\ Len(Executions(transport')) = Len(Executions(transport)) + 1
               /\ Last(transport').outcome.ok =>
                     Len(Cassette(file')) = Len(Cassette(file)) + 1
          ELSE /\ result' = Err("ReplayExhausted")
               /\ pc' = "running"
               /\ transport' = transport]_vars

\* the request differs from the stored one only in gzip, redirect or timeout
DiffersInKnobsOnly(request_data, stored) ==
    /\ ~SameAsStored(request_data, stored)
    /\ ~Differs(request_data, stored)

\* C13: gzip, redirect and timeout take no part in matching: a request that
\* differs from the recorded one only in them is a match and is answered
\* with the stored response.
C13_KnobsDoNotAffectMatch ==
    [][(/\ SendStep /\ mode = "Replay" /\ HasReplayPosition
        /\ DiffersInKnobsOnly(sent'.v, AtReplayPosition.request)) =>
          /\ ReturnsStored(result', AtReplayPosition.response)
          /\ transport' = transport]_vars

\* ReplayFile::read has returned and the file holds what the last
\* ReplayFile::write was given
ReadBackLastWrite ==
    /\ result.kind \in {"read_ok", "read_err"}
    /\ recorded # <<>>
    /\ Last(recorded).written = "ok"

\* C14: an interaction written by ReplayFile::write and read by
\* ReplayFile::read comes back with an equivalent request (target, headers,
\* body, basic-auth) and a response of the same url, status, headers and
\* body.
C14_WriteReadRoundTrip ==
    ReadBackLastWrite =>
        /\ result.kind = "read_ok"
        /\ LET wrote == Last(recorded).data
               got == result.data
           IN /\ got.request.target = wrote.request.target
              /\ got.request.headers = wrote.request.headers
              /\ got.request.body = wrote.request.body
              /\ got.request.basic_auth = wrote.request.basic_auth
              /\ got.response.url = wrote.response.url
              /\ got.response.status = wrote.response.status
              /\ got.response.headers = wrote.response.headers
              /\ got.response.body = wrote.response.body

\* C15: a header written with k values is read back with k values: no
\* values are merged into one and no header name is lost.
C15_MultiValuedHeadersKept ==
    (ReadBackLastWrite /\ result.kind = "read_ok") =>
        \A part \in {"request", "response"}, n \in HeaderNames :
            Len(result.data[part].headers[n]) =
                Len(Last(recorded).data[part].headers[n])

\* C16: reading when the file does not exist gives an empty cassette and
\* not an error.
C16_MissingFileReadsEmpty ==
    (file.state = "missing" /\ result.kind \in {"read_ok", "read_err"}) =>
        result.kind = "read_ok"

\* C17: when the process is killed during a write the file holds all of its
\* earlier content or all of the new content.
C17_WriteAllOrNothing ==
    [][(pc = "running" /\ pc' = "killed") =>
          \/ file' = file
          \/ file' = FileComplete(ReplayData_serialize(Last(recorded').data))]_vars

\* C18: a Record-mode send whose cassette write failed, or whose read of
\* the response body failed, returns an error and not Ok.
C18_StorageFailureReported ==
    [][(/\ SendStep /\ mode = "Record"
        /\ Len(recorded') = Len(recorded) + 1
        /\ \/ Last(recorded').written # "ok"
           \/ Last(recorded').data.response.body
                 # Last(transport').outcome.v.body) =>
          result'.kind = "err"]_vars

\* the file holds no JSON document, or a document whose request url or
\* method or response url does not parse
DoesNotParse(f) ==
    \/ f.state = "partial"
    \/ /\ f.state = "complete"
       /\ \/ /\ f.json.request.target.some
             /\ \/ ~into_url(f.json.request.target.v.url).ok
                \/ ~Method_from_str(f.json.request.target.v.method).ok
          \/ ~into_url(f.json.response.url).ok

\* C19: ReplayFile::read of content that does not parse returns an error
\* value: the program keeps running, the file is left as it is, and nothing
\* is returned as read.
C19_CorruptContentIsError ==
    [][(result'.kind \in {"read_ok", "read_err"} /\ result' # result) =>
          /\ file' = file
          /\ DoesNotParse(file) => (result'.kind = "read_err" /\ pc' = "running")]_vars

\* C19 happens: a file whose request url does not parse was read
C19_Witness ==
    /\ file.state = "complete"
    /\ file.json.request.target.some
    /\ ~into_url(file.json.request.target.v.url).ok
    /\ result = ReadErr("json")
    /\ pc = "running"

\* C20: a url that does not parse never makes a call panic: every call
\* other than send leaves the program running, the error being kept for
\* send to return.
C20_BadUrlIsErrorValue ==
    [][(pc = "running" /\ ~SendStep) => pc' = "running"]_vars

\* C22: the response a successful Record-mode send returns has the url,
\* status, headers and whole body of the ResponseData recorded for the
\* call: capturing the body leaves the caller's body as the transport gave
\* it.
C22_ReturnedResponseIsRecorded ==
    [][(/\ SendStep /\ mode = "Record"
        /\ result'.kind = "ok"
        /\ Len(recorded') = Len(recorded) + 1) =>
          LET captured == Last(recorded').data.response
          IN /\ result'.response.url = captured.url
             /\ result'.response.status = captured.status
             /\ result'.response.headers = captured.headers
             /\ result'.response.body = captured.body
             /\ result'.response.body = Last(transport').outcome.v.body]_vars

\* a send that reached the transport's req.send()
ExecutedStep ==
    /\ SendStep /\ mode = "Record"
    /\ Len(Executions(transport')) = Len(Executions(transport)) + 1

\* C23: the live call of a Record-mode send carries the request's gzip
\* flag, redirect policy, method, url and headers, a timeout, basic-auth and
\* body exactly when the request has them, and the RequestData recorded
\* with the response is the one that was sent.
C23_LiveCallUsesRequestValues ==
    [][ExecutedStep =>
          LET call == Last(transport').call
              req  == sent'.v
          IN /\ call.gzip = req.gzip
             /\ call.redirect.tag = (IF req.redirect = RedirectNone
                                     THEN "none" ELSE "limited")
             /\ (req.redirect # RedirectNone) => call.redirect.n = req.redirect.n
             /\ call.method = req.target.v.method
             /\ call.url = req.target.v.url
             /\ call.headers = req.headers
             /\ call.timeout = req.timeout
             /\ call.basic_auth = req.basic_auth
             /\ call.body = req.body
             /\ Len(recorded') = Len(recorded) + 1 =>
                   Last(recorded').data.request = req]_vars

\* C23 happens: a request with a timeout was executed and recorded, and one
\* with a body and basic-auth and no timeout
C23_Witness ==
    /\ mode = "Record" /\ sent.some
    /\ sent.v.timeout = None /\ sent.v.body.some /\ sent.v.basic_auth.some
    /\ transport # <<>> /\ Last(transport).op = "send"
    /\ Last(transport).call.body = sent.v.body
    /\ recorded # <<>> /\ Last(recorded).data.request = sent.v
    /\ \E i \in 1 .. Len(transport) :
          /\ transport[i].op = "send"
          /\ transport[i].call.timeout.some

\* a step of a request-builder operation
BuilderStep == rb.some /\ rb'.some /\ rb' # rb

\* the fields of the request being built other than headers, basic-auth and
\* body, the client configuration and the cassette are left as they are
BuilderFrame ==
    /\ rb'.v.method = rb.v.method
    /\ rb'.v.url = rb.v.url
    /\ rb'.v.data.target = rb.v.data.target
    /\ rb'.v.data.gzip = rb.v.data.gzip
    /\ rb'.v.data.redirect = rb.v.data.redirect
    /\ rb'.v.data.timeout = rb.v.data.timeout
    /\ data' = data
    /\ file' = file

\* one header was given one value, or headers of a Headers argument took
\* the place of the headers of their names
HeadersChanged(old, new) ==
    \/ \E n \in HeaderNames :
          /\ Len(new[n]) = 1
          /\ \A m \in HeaderNames \ {n} : new[m] = old[m]
    \/ \E hs \in HeadersInputs :
          \A n \in HeaderNames : new[n] = (IF hs[n] # <<>> THEN hs[n] ELSE old[n])

\* C24: a request-builder operation changes the headers only, the
\* basic-auth only, the body only (to the body given), or the Content-Type
\* header together with the body; method, url, gzip, redirect, timeout, the
\* client configuration and the cassette are never changed.
C24_BuilderOperationsFrame ==
    [][BuilderStep =>
          LET old == rb.v.data
              new == rb'.v.data
          IN /\ BuilderFrame
             /\ \/ /\ HeadersChanged(old.headers, new.headers)
                   /\ new.basic_auth = old.basic_auth /\ new.body = old.body
                \/ /\ new.basic_auth.some
                   /\ new.headers = old.headers /\ new.body = old.body
                \/ /\ new.body.some
                   /\ new.headers = old.headers /\ new.basic_auth = old.basic_auth
                \/ /\ new.body.some
                   /\ new.headers["content-type"]
                         \in {<<ContentType_form_url_encoded>>, <<ContentType_json>>}
                   /\ \A n \in HeaderNames \ {"content-type"} :
                         new.headers[n] = old.headers[n]
                   /\ new.basic_auth = old.basic_auth]_vars

\* C24 happens: a request was built with json after header and basic_auth
C24_Witness ==
    /\ rb.some
    /\ rb.v.data.headers["content-type"] = <<ContentType_json>>
    /\ rb.v.data.headers["accept"] # <<>>
    /\ rb.v.data.body.some
    /\ rb.v.data.basic_auth.some
    /\ data.gzip # ClientData_default.gzip
====
